---- MODULE Spec2Model ----
(***************************************************************************)
(* Persistence / repository layer of the Task-and-Contact-Management-Suite *)
(*   task_planner.py : TaskRepository over CSVTaskStorage  (app = "csv")   *)
(*   todo_app.py     : TaskRepository over SQLite          (app = "sql")   *)
(*   contacts.py     : ContactManager over a JSON document (app = "json")  *)
(* One run of the model follows one of the three programs.                 *)
(***************************************************************************)
EXTENDS Integers, Sequences, FiniteSets, TLC

VARIABLES app, pc, clock, nextId, faults, ops, tasks, csvFile, csvTmp, dbRows,
          contacts, jsonFile, last, results, backups, conns

vars == <<app, pc, clock, nextId, faults, ops, tasks, csvFile, csvTmp, dbRows,
          contacts, jsonFile, last, results, backups, conns>>

\* ---------------------------------------------------------------- bounds
\* I/O failures and kills injected in one run
MaxFaults == 1
\* calls made on the repository in one run
MaxOps == 3

\* ------------------------------------------------------- shared helpers
\* dict.get(key, default)
Get(d, k, default) == IF k \in DOMAIN d THEN d[k] ELSE default

Range(s) == {s[i] : i \in DOMAIN s}

\* Python's None
None == "None"

\* a timestamp later than every reading of the clock
FarFuture == MaxOps + 1

\* an id string that uuid4 never produced
ForeignId == 0

NoCall == [op |-> "none", arg |-> None, data |-> <<>>, res |-> "ok", save |-> "none"]

\* the backup files next to the canonical path (each a name, which is its
\* timestamp suffix, and a body) and the number of backup calls that returned
NoBackups == [dir |-> {}, made |-> 0]

\* a caller makes one more call on a live repository
Called == pc = "ready" /\ ops < MaxOps /\ ops' = ops + 1

\* datetime.now() as the next call reads it: it has microsecond resolution,
\* so every call reads a later value than the call before it
now == clock + 1

\* -------------------------------------------------- task_planner.py (CSV)
\* TaskField, in declaration order: CSVTaskStorage.fieldnames
fieldnames == <<"id", "title", "description", "priority", "due_date",
                "category", "created_at", "updated_at", "status">>

FieldSet == Range(fieldnames)

Absent == [exists |-> FALSE, lines |-> <<>>]

\* A writer that puts the title and description cells in each other's column.
to_row_swapped(task) ==
    [i \in 1..Len(fieldnames) |->
        task[fieldnames[IF i = 2 THEN 3 ELSE IF i = 3 THEN 2 ELSE i]]]

\* csv.DictWriter.writerow(task.to_dict()): the cells in fieldnames order
to_row(task) == [i \in 1..Len(fieldnames) |-> task[fieldnames[i]]]

\* header line followed by one line per task
csv_lines(ts) == <<fieldnames>> \o [i \in 1..Len(ts) |-> to_row(ts[i])]

\* csv.DictReader: the cell under the header cell `field`; None (restval)
\* when the row is too short to have that cell; row.get's default when the
\* header has no such cell
row_get(header, row, field, default) ==
    IF \E i \in 1..Len(header) : header[i] = field
    THEN LET i == CHOOSE i \in 1..Len(header) : header[i] = field
         IN IF i <= Len(row) THEN row[i] ELSE None
    ELSE default

\* a line of bytes that do not decode as text
BadBytes == <<"\\xff">>

\* reading the file raises inside load_tasks' outer try
load_raises(file) == file.exists /\ \E i \in 1..Len(file.lines) : file.lines[i] = BadBytes

\* CSVTaskStorage.load_tasks: the first line is the header, DictReader passes
\* over blank lines
load_tasks(file) ==
    IF ~file.exists \/ Len(file.lines) = 0 THEN <<>>
    ELSE LET header == file.lines[1]
             nonblank(line) == line # <<>>
             rows == SelectSeq(Tail(file.lines), nonblank)
         IN [i \in 1..Len(rows) |->
               [id          |-> row_get(header, rows[i], "id", ""),
                title       |-> row_get(header, rows[i], "title", ""),
                description |-> row_get(header, rows[i], "description", ""),
                priority    |-> row_get(header, rows[i], "priority", ""),
                due_date    |-> row_get(header, rows[i], "due_date", ""),
                category    |-> row_get(header, rows[i], "category", ""),
                created_at  |-> row_get(header, rows[i], "created_at", ""),
                updated_at  |-> row_get(header, rows[i], "updated_at", ""),
                status      |-> row_get(header, rows[i], "status", "pending")]]

\* A save that writes the canonical file in place, with no temporary file.
save_tasks_inplace(ts, file, tmp, stage, k) ==
    CASE stage = "open"    -> [file |-> file, tmp |-> tmp]
      [] stage = "write"   -> [file |-> [exists |-> TRUE, lines |-> SubSeq(csv_lines(ts), 1, k)],
                               tmp |-> tmp]
      [] OTHER             -> [file |-> [exists |-> TRUE, lines |-> csv_lines(ts)], tmp |-> tmp]

\* CSVTaskStorage.save_tasks, run up to `stage`:
\*   "open"    open(temp_file, "w") has not happened
\*   "write"   temp_file holds the first k lines
\*   "replace" temp_file is complete and closed, os.replace/os.rename not done
\*   "done"    temp_file has been moved onto file_path
save_tasks(ts, file, tmp, stage, k) ==
    CASE stage = "open"    -> [file |-> file, tmp |-> tmp]
      [] stage = "write"   -> [file |-> file,
                               tmp |-> [exists |-> TRUE, lines |-> SubSeq(csv_lines(ts), 1, k)]]
      [] stage = "replace" -> [file |-> file,
                               tmp |-> [exists |-> TRUE, lines |-> csv_lines(ts)]]
      [] OTHER             -> [file |-> [exists |-> TRUE, lines |-> csv_lines(ts)],
                               tmp |-> Absent]

\* How a save of n records can end: it returns ("ok"); it raises because
\* open or os.replace failed ("raise"); or the process is ended inside it by
\* handle_signal's sys.exit, which `except Exception` does not catch ("kill"),
\* after k lines of the temporary file, before the replace, or right after it.
SaveOutcomes(n) ==
    {[kind |-> "ok", stage |-> "done", k |-> 0]}
    \cup (IF faults < MaxFaults
          THEN {[kind |-> "raise", stage |-> "open", k |-> 0],
                [kind |-> "raise", stage |-> "replace", k |-> 0],
                [kind |-> "kill", stage |-> "replace", k |-> 0],
                [kind |-> "kill", stage |-> "done", k |-> 0]}
               \cup {[kind |-> "kill", stage |-> "write", k |-> j] : j \in 0..n}
          ELSE {})

SaveState(o) == CASE o.kind = "ok" -> "ok" [] o.kind = "raise" -> "failed" [] OTHER -> "killed"

\* values a caller passes
Titles == {"a", "b"}

TaskDatas ==
    {[title |-> "a"], [title |-> "b", priority |-> "high", status |-> "completed"]}

\* TaskRepository.save_tasks and the bookkeeping common to the mutating calls
CsvCommit(mem, o, call) ==
    LET fs == save_tasks(mem, csvFile, csvTmp, o.stage, o.k)
    IN /\ o.k <= Len(mem)
       /\ tasks' = mem
       /\ csvFile' = fs.file
       /\ csvTmp' = fs.tmp
       /\ pc' = IF o.kind = "kill" THEN "dead" ELSE "ready"
       /\ faults' = IF o.kind = "ok" THEN faults ELSE faults + 1
       /\ last' = [call EXCEPT !.save = SaveState(o),
                               !.res = CASE o.kind = "ok" -> call.res
                                         [] o.kind = "raise" -> "TaskPlannerError"
                                         [] OTHER -> "killed"]

\* TaskRepository.create_task
create_task(task_data, o) ==
    /\ app = "csv" /\ Called /\ clock' = now
    /\ LET task == [id          |-> nextId,
                    title       |-> Get(task_data, "title", ""),
                    description |-> Get(task_data, "description", ""),
                    priority    |-> Get(task_data, "priority", "medium"),
                    due_date    |-> Get(task_data, "due_date", ""),
                    category    |-> Get(task_data, "category", ""),
                    created_at  |-> now,
                    updated_at  |-> now,
                    status      |-> Get(task_data, "status", "pending")]
       IN CsvCommit(Append(tasks, task), o,
                    [op |-> "create_task", arg |-> nextId, data |-> task_data,
                     res |-> "ok", save |-> "none"])
    /\ nextId' = nextId + 1
    /\ UNCHANGED <<conns, results, backups, app, dbRows, contacts, jsonFile>>

\* the loop of update_task / get_task: the first task with this id
FirstIndex(ts, task_id) ==
    IF \E i \in 1..Len(ts) : ts[i].id = task_id
    THEN CHOOSE i \in 1..Len(ts) :
            ts[i].id = task_id /\ \A j \in 1..(i - 1) : ts[j].id # task_id
    ELSE 0

\* an absent Task (get_task's None): the record with no field
NoTask == <<>>

\* TaskRepository.get_task: the first task with this id, or None
get_task(ts, task_id) ==
    IF FirstIndex(ts, task_id) = 0 THEN NoTask ELSE ts[FirstIndex(ts, task_id)]

\* setattr for every key the task has, then the updated_at stamp
apply_update(task, update_data, stamp) ==
    [f \in FieldSet |->
        IF f = "updated_at" THEN stamp
        ELSE IF f \in DOMAIN update_data THEN update_data[f]
        ELSE task[f]]

\* TaskRepository.update_task
update_task(task_id, update_data, o) ==
    /\ app = "csv" /\ Called /\ clock' = now
    /\ LET i == FirstIndex(tasks, task_id)
           call == [op |-> "update_task", arg |-> task_id, data |-> update_data,
                    res |-> "ok", save |-> "none"]
       IN IF i = 0
          THEN /\ o.kind = "ok"
               /\ last' = [call EXCEPT !.res = "None"]
               /\ UNCHANGED <<pc, faults, tasks, csvFile, csvTmp>>
          ELSE CsvCommit([tasks EXCEPT ![i] = apply_update(tasks[i], update_data, now)],
                         o, call)
    /\ UNCHANGED <<conns, results, backups, app, nextId, dbRows, contacts, jsonFile>>

\* A delete_task that calls save_tasks whether or not a task was removed.
delete_task_saves(task_id, o) ==
    /\ app = "csv" /\ Called
    /\ LET keep(t) == t.id # task_id
           mem == SelectSeq(tasks, keep)
       IN CsvCommit(mem, o,
                    [op |-> "delete_task", arg |-> task_id, data |-> <<>>,
                     res |-> IF Len(mem) < Len(tasks) THEN "ok" ELSE "False",
                     save |-> "none"])
    /\ UNCHANGED <<conns, results, backups, app, clock, nextId, dbRows, contacts, jsonFile>>

\* A delete_task that removes the task from the list and never saves.
delete_task_unsaved(task_id, o) ==
    /\ app = "csv" /\ Called /\ o.kind = "ok"
    /\ LET keep(t) == t.id # task_id
           mem == SelectSeq(tasks, keep)
       IN /\ tasks' = mem
          /\ last' = [op |-> "delete_task", arg |-> task_id, data |-> <<>>,
                      res |-> IF Len(mem) < Len(tasks) THEN "ok" ELSE "False",
                      save |-> "none"]
    /\ UNCHANGED <<conns, results, backups, app, pc, clock, nextId, faults, csvFile, csvTmp, dbRows, contacts, jsonFile>>

\* TaskRepository.delete_task
delete_task(task_id, o) ==
    /\ app = "csv" /\ Called
    /\ LET keep(t) == t.id # task_id
           mem == SelectSeq(tasks, keep)
           call == [op |-> "delete_task", arg |-> task_id, data |-> <<>>,
                    res |-> "ok", save |-> "none"]
       IN IF Len(mem) < Len(tasks)
          THEN CsvCommit(mem, o, call)
          ELSE /\ o.kind = "ok"
               /\ tasks' = mem
               /\ last' = [call EXCEPT !.res = "False"]
               /\ UNCHANGED <<pc, faults, csvFile, csvTmp>>
    /\ UNCHANGED <<conns, results, backups, app, clock, nextId, dbRows, contacts, jsonFile>>

\* main() in a new process: TaskRepository.__init__ loads the file; when the
\* load raises, main logs the error and exits
csv_start ==
    /\ app = "csv" /\ pc = "dead"
    /\ IF load_raises(csvFile)
       THEN /\ tasks' = <<>>
            /\ pc' = "failed"
            /\ last' = [NoCall EXCEPT !.op = "init", !.res = "TaskPlannerError"]
       ELSE /\ tasks' = load_tasks(csvFile)
            /\ pc' = "ready"
            /\ last' = [NoCall EXCEPT !.op = "init"]
    /\ UNCHANGED <<conns, results, backups, app, clock, nextId, faults, ops, csvFile, csvTmp, dbRows, contacts, jsonFile>>

\* update_data mappings a caller passes to the CSV repository
CsvUpdateDatas ==
    {<<>>}
    \cup {("title" :> "b"), ("status" :> "completed"), ("nosuch" :> "x")}
    \cup {("id" :> v) : v \in {t.id : t \in Range(tasks)} \cup {ForeignId}}
    \cup {("created_at" :> FarFuture), ("updated_at" :> 0)}

\* ids a caller passes: every id create_task has returned, and one it has not
TaskIds == 1..(nextId - 1) \cup {ForeignId}

NextCsv ==
    \/ \E d \in TaskDatas : \E o \in SaveOutcomes(Len(tasks) + 1) : create_task(d, o)
    \/ \E id \in TaskIds : \E d \in CsvUpdateDatas : \E o \in SaveOutcomes(Len(tasks)) :
          update_task(id, d, o)
    \/ \E id \in TaskIds : \E o \in SaveOutcomes(Len(tasks)) : delete_task(id, o)
    \/ csv_start

\* ------------------------------------------------ todo_app.py (SQLite)
\* an open connection: to the database file, or to the backup file of a name
DbConn == [to |-> "db_file", name |-> 0]
BackupConn(name) == [to |-> "backup_file", name |-> name]

\* sqlite3.connect: one more open connection
connect(cs, c) == cs \cup {c}

\* conn.close()
close(cs, c) == cs \ {c}

\* DatabaseManager._get_connection around an operation's body: the
\* connection to db_file is opened on entry and closed in the finally clause
\* on every way out
get_connection(cs) == close(connect(cs, DbConn), DbConn)

\* the NOT NULL and CHECK constraints of the tasks table
RowOk(r) ==
    /\ r.title # None
    /\ r.status \in {"pending", "completed"}
    /\ r.priority \in {"low", "medium", "high"}

TodoDatas ==
    {[title |-> "a"],
     [title |-> "b", priority |-> "high", status |-> "completed"],
     [title |-> "a", priority |-> "urgent"],
     [title |-> "a", status |-> "in_progress"],
     [description |-> "d"]}

\* TaskRepository.create_task of todo_app.py
todo_create_task(task_data) ==
    /\ app = "sql" /\ Called /\ clock' = now
    /\ LET task == [id          |-> nextId,
                    title       |-> Get(task_data, "title", None),
                    description |-> Get(task_data, "description", ""),
                    status      |-> "pending",
                    priority    |-> Get(task_data, "priority", "medium"),
                    due_date    |-> Get(task_data, "due_date", None),
                    category    |-> Get(task_data, "category", None),
                    created_at  |-> now,
                    updated_at  |-> now]
           call == [op |-> "create_task", arg |-> nextId, data |-> task_data,
                    res |-> "ok", save |-> "none"]
       IN IF RowOk(task) /\ \A i \in 1..Len(dbRows) : dbRows[i].id # task.id
          THEN dbRows' = Append(dbRows, task) /\ last' = call
          ELSE dbRows' = dbRows /\ last' = [call EXCEPT !.res = "DatabaseError"]
    /\ nextId' = nextId + 1
    /\ conns' = get_connection(conns)
    /\ UNCHANGED <<results, backups, app, pc, faults, tasks, csvFile, csvTmp, contacts, jsonFile>>

\* TaskRepository.get_task of todo_app.py: SELECT * FROM tasks WHERE id = ?
todo_get_task(rows, task_id) ==
    IF FirstIndex(rows, task_id) = 0 THEN NoTask ELSE rows[FirstIndex(rows, task_id)]

\* the columns update_task puts in its SET list
update_fields(update_data) ==
    {f \in DOMAIN update_data : f \in FieldSet /\ f \notin {"id", "created_at"}}

\* UPDATE tasks SET ..., updated_at = ? : of two assignments to one column
\* SQLite keeps the rightmost
todo_apply_update(row, update_data, stamp) ==
    [f \in FieldSet |->
        IF f = "updated_at" THEN stamp
        ELSE IF f \in update_fields(update_data) THEN update_data[f]
        ELSE row[f]]

\* TaskRepository.update_task of todo_app.py
todo_update_task(task_id, update_data) ==
    /\ app = "sql" /\ Called /\ clock' = now
    /\ LET i == FirstIndex(dbRows, task_id)
           call == [op |-> "update_task", arg |-> task_id, data |-> update_data,
                    res |-> "ok", save |-> "none"]
       IN IF i = 0 \/ update_fields(update_data) = {}
          THEN dbRows' = dbRows /\ last' = [call EXCEPT !.res = "None"]
          ELSE LET row == todo_apply_update(dbRows[i], update_data, now)
               IN IF RowOk(row)
                  THEN dbRows' = [dbRows EXCEPT ![i] = row] /\ last' = call
                  ELSE dbRows' = dbRows /\ last' = [call EXCEPT !.res = "DatabaseError"]
    /\ conns' = get_connection(conns)
    /\ UNCHANGED <<results, backups, app, pc, nextId, faults, tasks, csvFile, csvTmp, contacts, jsonFile>>

\* TaskRepository.delete_task of todo_app.py
todo_delete_task(task_id) ==
    /\ app = "sql" /\ Called
    /\ LET keep(t) == t.id # task_id
           rows == SelectSeq(dbRows, keep)
       IN /\ dbRows' = rows
          /\ last' = [op |-> "delete_task", arg |-> task_id, data |-> <<>>,
                      res |-> IF Len(rows) < Len(dbRows) THEN "ok" ELSE "False",
                      save |-> "none"]
    /\ conns' = get_connection(conns)
    /\ UNCHANGED <<results, backups, app, pc, clock, nextId, faults, tasks, csvFile, csvTmp, contacts, jsonFile>>

\* update_data mappings a caller passes to the SQLite repository
TodoUpdateDatas ==
    {<<>>, ("title" :> "b"), ("status" :> "completed"), ("status" :> "in_progress"),
     ("id" :> ForeignId), ("created_at" :> FarFuture), ("updated_at" :> 0),
     ("nosuch" :> "x")}

NextSql ==
    \/ \E d \in TodoDatas : todo_create_task(d)
    \/ \E id \in TaskIds : \E d \in TodoUpdateDatas : todo_update_task(id, d)
    \/ \E id \in TaskIds : todo_delete_task(id)

\* ------------------------------------------------- contacts.py (JSON)
Names == {"Al", "al", "Bo"}
BlankName == " "
Phone1 == "555-0100"
Phone2 == "555-0199"
BadPhone == "12"
Email1 == "al@example.org"
BadEmail == "al.example.org"

\* str.lower
lower(name) == IF name = "Al" THEN "al" ELSE name

\* str.strip
strip(name) == IF name = BlankName THEN "" ELSE name

\* re.match(r'^\+?[\d\s\-\(\)]{7,}$', phone)
phone_ok(phone) == phone \in {Phone1, Phone2}

\* re.match(r'^[^@]+@[^@]+\.[^@]+$', email)
email_ok(email) == email \in {Email1}

\* ContactManager._validate_contact: TRUE when it raises ValidationError
validate_fails(name, phone, email) ==
    strip(name) = "" \/ ~phone_ok(phone) \/ ~email_ok(email)

\* A lookup that compares the names as they are written, letter case included.
find_contact_index_exact(cs, name) ==
    IF \E i \in 1..Len(cs) : cs[i].name = name
    THEN CHOOSE i \in 1..Len(cs) : cs[i].name = name /\ \A j \in 1..(i - 1) : cs[j].name # name
    ELSE 0

\* ContactManager._find_contact_index, 0 for None
find_contact_index(cs, name) ==
    IF \E i \in 1..Len(cs) : lower(cs[i].name) = lower(name)
    THEN CHOOSE i \in 1..Len(cs) :
            lower(cs[i].name) = lower(name)
            /\ \A j \in 1..(i - 1) : lower(cs[j].name) # lower(name)
    ELSE 0

\* json.dump of one object: its members in insertion order
dump_obj(c) == <<<<"name", c.name>>, <<"phone", c.phone>>, <<"email", c.email>>>>

\* json.load of one object: a later member replaces an earlier one of that key
load_obj(ms) ==
    [key \in {ms[i][1] : i \in 1..Len(ms)} |->
        ms[CHOOSE i \in 1..Len(ms) :
              ms[i][1] = key /\ \A j \in (i + 1)..Len(ms) : ms[j][1] # key][2]]

Doc(cs) == [kind |-> "doc", doc |-> [i \in 1..Len(cs) |-> dump_obj(cs[i])]]
EmptyFile == [kind |-> "empty", doc |-> <<>>]
PartialFile == [kind |-> "partial", doc |-> <<>>]
MissingFile == [kind |-> "missing", doc |-> <<>>]

\* A load that treats a missing file as an error.
load_contacts_strict(file) ==
    CASE file.kind = "doc" -> [res |-> "ok",
                               list |-> [i \in 1..Len(file.doc) |-> load_obj(file.doc[i])],
                               file |-> file]
      [] OTHER             -> [res |-> "DatabaseError", list |-> <<>>, file |-> file]

\* ContactManager._load_contacts: what it returns or raises, and the file after it
load_contacts(file) ==
    CASE file.kind = "missing" -> [res |-> "ok", list |-> <<>>, file |-> EmptyFile]
      [] file.kind = "doc"     -> [res |-> "ok",
                                   list |-> [i \in 1..Len(file.doc) |-> load_obj(file.doc[i])],
                                   file |-> file]
      [] OTHER                 -> [res |-> "DatabaseError", list |-> <<>>, file |-> file]

\* ContactManager._save_contacts, run up to `stage`:
\*   "open"    open('w') has not happened
\*   "trunc"   open('w') has emptied the file, nothing is written yet
\*   "partial" a part of the document is written
\*   "done"    the document is written and the file closed
save_contacts(cs, file, stage) ==
    CASE stage = "open"    -> file
      [] stage = "trunc"   -> EmptyFile
      [] stage = "partial" -> PartialFile
      [] OTHER             -> Doc(cs)

\* How _save_contacts can end: it returns, it raises (open or write failed),
\* or the process is ended inside it.
JsonOutcomes ==
    {[kind |-> "ok", stage |-> "done"]}
    \cup (IF faults < MaxFaults
          THEN {[kind |-> "raise", stage |-> "open"],
                [kind |-> "raise", stage |-> "partial"],
                [kind |-> "kill", stage |-> "trunc"],
                [kind |-> "kill", stage |-> "partial"],
                [kind |-> "kill", stage |-> "done"]}
          ELSE {})

\* a call that ends before it reaches _save_contacts
JsonReturn(mem, call) ==
    /\ contacts' = mem
    /\ last' = call
    /\ UNCHANGED <<pc, faults, jsonFile>>

\* _save_contacts inside the try block of a mutating call
JsonCommit(mem, o, call) ==
    /\ contacts' = mem
    /\ jsonFile' = save_contacts(mem, jsonFile, o.stage)
    /\ pc' = IF o.kind = "kill" THEN "dead" ELSE "ready"
    /\ faults' = IF o.kind = "ok" THEN faults ELSE faults + 1
    /\ last' = [call EXCEPT !.save = SaveState(o),
                            !.res = CASE o.kind = "ok" -> "ok"
                                      [] o.kind = "raise" -> "DatabaseError"
                                      [] OTHER -> "killed"]

\* ContactManager.add_contact
add_contact(name, phone, email, o) ==
    /\ app = "json" /\ Called
    /\ LET call == [op |-> "add_contact", arg |-> name, data |-> <<name, phone, email>>,
                    res |-> "ok", save |-> "none"]
       IN IF validate_fails(name, phone, email)
          THEN o.kind = "ok" /\ JsonReturn(contacts, [call EXCEPT !.res = "ValidationError"])
          ELSE IF find_contact_index(contacts, name) # 0
          THEN o.kind = "ok" /\ JsonReturn(contacts, [call EXCEPT !.res = "ContactExistsError"])
          ELSE JsonCommit(Append(contacts, [name |-> name, phone |-> phone, email |-> email]),
                          o, call)
    /\ UNCHANGED <<conns, results, backups, app, clock, nextId, tasks, csvFile, csvTmp, dbRows>>

\* del self.contacts[index]
Remove(cs, i) == [j \in 1..(Len(cs) - 1) |-> IF j < i THEN cs[j] ELSE cs[j + 1]]

\* ContactManager.delete_contact
delete_contact(name, o) ==
    /\ app = "json" /\ Called
    /\ LET index == find_contact_index(contacts, name)
           call == [op |-> "delete_contact", arg |-> name, data |-> <<>>,
                    res |-> "ok", save |-> "none"]
       IN IF index # 0
          THEN JsonCommit(Remove(contacts, index), o, call)
          ELSE o.kind = "ok" /\ JsonReturn(contacts, [call EXCEPT !.res = "ContactNotFoundError"])
    /\ UNCHANGED <<conns, results, backups, app, clock, nextId, tasks, csvFile, csvTmp, dbRows>>

\* ContactManager.update_contact: the three guarded assignments in order; a
\* step that raises keeps the assignments made before it
update_contact(name, new_name, phone, email, o) ==
    /\ app = "json" /\ Called
    /\ LET index == find_contact_index(contacts, name)
           call == [op |-> "update_contact", arg |-> name,
                    data |-> <<new_name, phone, email>>, res |-> "ok", save |-> "none"]
       IN IF index = 0
          THEN o.kind = "ok" /\ JsonReturn(contacts, [call EXCEPT !.res = "ContactNotFoundError"])
          ELSE
          LET c0 == contacts[index]
              do1 == new_name # None /\ new_name # c0.name
              exists1 == do1 /\ find_contact_index(contacts, new_name) # 0
              bad1 == do1 /\ ~exists1 /\ validate_fails(new_name, c0.phone, c0.email)
              c1 == IF do1 THEN [c0 EXCEPT !.name = new_name] ELSE c0
              do2 == phone # None /\ phone # c1.phone
              bad2 == do2 /\ validate_fails(c1.name, phone, c1.email)
              c2 == IF do2 THEN [c1 EXCEPT !.phone = phone] ELSE c1
              do3 == email # None /\ email # c2.email
              bad3 == do3 /\ validate_fails(c2.name, c2.phone, email)
              c3 == IF do3 THEN [c2 EXCEPT !.email = email] ELSE c2
              with(c) == [contacts EXCEPT ![index] = c]
          IN CASE exists1 ->
                    o.kind = "ok" /\ JsonReturn(contacts, [call EXCEPT !.res = "ContactExistsError"])
               [] ~exists1 /\ bad1 ->
                    o.kind = "ok" /\ JsonReturn(contacts, [call EXCEPT !.res = "ValidationError"])
               [] ~exists1 /\ ~bad1 /\ bad2 ->
                    o.kind = "ok" /\ JsonReturn(with(c1), [call EXCEPT !.res = "ValidationError"])
               [] ~exists1 /\ ~bad1 /\ ~bad2 /\ bad3 ->
                    o.kind = "ok" /\ JsonReturn(with(c2), [call EXCEPT !.res = "ValidationError"])
               [] OTHER ->
                    IF do1 \/ do2 \/ do3
                    THEN JsonCommit(with(c3), o, call)
                    ELSE o.kind = "ok" /\ JsonReturn(contacts, call)
    /\ UNCHANGED <<conns, results, backups, app, clock, nextId, tasks, csvFile, csvTmp, dbRows>>

HasKeys(entry) == {"name", "phone", "email"} \subseteq DOMAIN entry

\* ContactManager.import_contacts. Every exception raised inside its try block
\* that is neither JSONDecodeError nor OSError, its own ValidationError and
\* ContactExistsError included, leaves through `except Exception` as
\* DatabaseError.
import_contacts(f, o) ==
    /\ app = "json" /\ Called
    /\ LET call == [op |-> "import_contacts", arg |-> f.kind, data |-> f.entries,
                    res |-> "ok", save |-> "none"]
           imported == f.entries
           invalid == \E i \in 1..Len(imported) :
                         \/ ~HasKeys(imported[i])
                         \/ validate_fails(imported[i].name, imported[i].phone,
                                           imported[i].email)
           duplicates == {lower(c.name) : c \in Range(contacts)}
                         \cap {lower(c.name) : c \in Range(imported)}
       IN CASE f.kind = "missing" ->
                    o.kind = "ok" /\ JsonReturn(contacts, [call EXCEPT !.res = "FileError"])
            [] f.kind = "badjson" ->
                    o.kind = "ok" /\ JsonReturn(contacts, [call EXCEPT !.res = "ValidationError"])
            [] f.kind = "notlist" ->
                    o.kind = "ok" /\ JsonReturn(contacts, [call EXCEPT !.res = "DatabaseError"])
            [] OTHER ->
                    IF invalid \/ duplicates # {}
                    THEN o.kind = "ok"
                         /\ JsonReturn(contacts, [call EXCEPT !.res = "DatabaseError"])
                    ELSE JsonCommit(contacts \o imported, o, call)
    /\ UNCHANGED <<conns, results, backups, app, clock, nextId, tasks, csvFile, csvTmp, dbRows>>

\* main() after the process was ended: ContactManager.__init__ loads the file
json_start ==
    /\ app = "json" /\ pc = "dead"
    /\ LET r == load_contacts(jsonFile)
       IN /\ contacts' = r.list
          /\ jsonFile' = r.file
          /\ pc' = IF r.res = "ok" THEN "ready" ELSE "failed"
          /\ last' = [NoCall EXCEPT !.op = "init", !.res = r.res]
    /\ UNCHANGED <<conns, results, backups, app, clock, nextId, faults, ops, tasks, csvFile, csvTmp, dbRows>>

Contact(n, p) == [name |-> n, phone |-> p, email |-> Email1]

\* arguments a caller passes
AddArgs ==
    {<<n, Phone1, Email1>> : n \in Names}
    \cup {<<BlankName, Phone1, Email1>>, <<"Bo", BadPhone, Email1>>, <<"Bo", Phone1, BadEmail>>}

UpdateArgs ==
    {<<None, None, None>>, <<None, Phone2, None>>, <<None, BadPhone, None>>,
     <<None, None, BadEmail>>, <<BlankName, None, None>>}
    \cup {<<n, None, None>> : n \in Names}
    \cup {<<n, BadPhone, None>> : n \in Names}

ImportFiles ==
    {[kind |-> k, entries |-> <<>>] : k \in {"missing", "badjson", "notlist", "list"}}
    \cup {[kind |-> "list", entries |-> e] :
            e \in {<<Contact("Al", Phone1)>>,
                   <<Contact("Bo", Phone2), Contact("al", Phone1)>>,
                   <<Contact("Al", Phone1), Contact("al", Phone2)>>,
                   <<Contact("Bo", BadPhone)>>,
                   <<[name |-> "Bo"]>>}}

NextJson ==
    \/ \E a \in AddArgs : \E o \in JsonOutcomes : add_contact(a[1], a[2], a[3], o)
    \/ \E n \in Names : \E o \in JsonOutcomes : delete_contact(n, o)
    \/ \E n \in Names : \E a \in UpdateArgs : \E o \in JsonOutcomes :
          update_contact(n, a[1], a[2], a[3], o)
    \/ \E f \in ImportFiles : \E o \in JsonOutcomes : import_contacts(f, o)
    \/ json_start

Init ==
    /\ app \in {"csv", "sql", "json"}
    /\ pc = "ready"
    /\ clock = 0
    /\ nextId = 1
    /\ faults = 0
    /\ ops = 0
    /\ tasks = <<>>
    /\ csvFile = Absent
    /\ csvTmp = Absent
    /\ dbRows = <<>>
    /\ contacts = <<>>
    /\ jsonFile = EmptyFile
    /\ last = NoCall
    /\ results = <<>>
    /\ backups = NoBackups
    /\ conns = {}

Next == NextCsv \/ NextSql \/ NextJson

Spec == Init /\ [][Next]_vars

\* ------------------------------------------------------------ search_tasks
\* In this part a free-text value (title, description, category) is the
\* sequence of its characters.
\* records held by a repository that is searched
MaxRecords == 2

BuyMilk == <<"B", "u", "y", " ", "m", "i", "l", "k">>
Milk == <<"m", "i", "l", "k">>
Bus == <<"b", "u", "s">>

SearchTitles == {BuyMilk, Milk, Bus}

\* str.lower / the case folding of LIKE, one character
lower_char(c) ==
    CASE c = "B" -> "b" [] c = "U" -> "u" [] c = "Y" -> "y" [] c = "M" -> "m" [] OTHER -> c

lower_text(t) == [i \in 1..Len(t) |-> lower_char(t[i])]

\* one stored record: as create_task leaves it, its text fields being the
\* caller's
SearchRecord(i, c) ==
    [id |-> i, title |-> c[1], description |-> <<>>, priority |-> c[2],
     due_date |-> "", category |-> <<>>, created_at |-> i, updated_at |-> i,
     status |-> c[3]]

SearchCombos == SearchTitles \X {"high", "medium"} \X {"pending", "completed"}

\* two high-priority records among five
FiveRecords ==
    <<<<BuyMilk, "high", "pending">>, <<Milk, "medium", "pending">>,
      <<Bus, "high", "completed">>, <<Bus, "medium", "completed">>,
      <<Milk, "medium", "completed">>>>

SearchLists ==
    {[i \in 1..Len(cs) |-> SearchRecord(i, cs[i])] :
        cs \in UNION {[1..n -> SearchCombos] : n \in 0..MaxRecords} \cup {FiveRecords}}

\* keyword arguments a caller passes to search_tasks
SearchFilters ==
    {<<>>,
     [priority |-> "high"], [status |-> "pending"],
     [priority |-> "high", status |-> "completed"],
     [priority |-> "medium", status |-> "pending"],
     [priority |-> ""],
     [title |-> Milk], [title |-> <<"B", "U", "Y">>], [title |-> <<"b", "u", "_">>],
     [title |-> Bus, priority |-> "high"],
     [category |-> <<"x">>], [nosuch |-> "x"]}

\* A filter loop that accepts a task as soon as one filter agrees with it.
matches_any(task, kwargs) ==
    \E field \in DOMAIN kwargs : field \in FieldSet /\ task[field] = kwargs[field]

\* the filter loop of search_tasks (task_planner.py): no attribute the task
\* has differs from the value given for it
matches(task, kwargs) ==
    \A field \in DOMAIN kwargs : field \in FieldSet => task[field] = kwargs[field]

\* TaskRepository.search_tasks of task_planner.py
search_tasks(kwargs) ==
    /\ app = "csv" /\ pc = "ready"
    /\ LET match(t) == matches(t, kwargs)
       IN results' = SelectSeq(tasks, match)
    /\ last' = [op |-> "search_tasks", arg |-> None, data |-> kwargs,
                res |-> "ok", save |-> "none"]
    /\ UNCHANGED <<conns, backups, app, pc, clock, nextId, faults, ops, tasks, csvFile, csvTmp,
                   dbRows, contacts, jsonFile>>

\* SQLite's  text LIKE pattern : % is any run of characters, _ any one
\* character, letters compare without regard to case
RECURSIVE like(_, _)
like(pattern, text) ==
    IF pattern = <<>> THEN text = <<>>
    ELSE IF Head(pattern) = "%"
    THEN \E k \in 0..Len(text) : like(Tail(pattern), SubSeq(text, k + 1, Len(text)))
    ELSE /\ text # <<>>
         /\ Head(pattern) = "_" \/ lower_char(Head(pattern)) = lower_char(Head(text))
         /\ like(Tail(pattern), Tail(text))

\* the WHERE clause search_tasks (todo_app.py) builds: LIKE %value% for a
\* text field, equality for status and priority, nothing for an empty value
\* or another key
todo_where(row, filters) ==
    \A field \in DOMAIN filters :
        IF field \in {"title", "description", "category"}
        THEN filters[field] = <<>> \/ like(<<"%">> \o filters[field] \o <<"%">>, row[field])
        ELSE IF field \in {"status", "priority"}
        THEN filters[field] = "" \/ row[field] = filters[field]
        ELSE TRUE

\* An ORDER BY that puts the oldest record first.
RECURSIVE order_by_created_at_asc(_)
order_by_created_at_asc(rows) ==
    IF rows = <<>> THEN <<>>
    ELSE LET i == CHOOSE i \in 1..Len(rows) :
                     \A j \in 1..Len(rows) :
                        \/ rows[j].created_at > rows[i].created_at
                        \/ rows[j].created_at = rows[i].created_at /\ j >= i
         IN <<rows[i]>> \o order_by_created_at_asc(Remove(rows, i))

\* ORDER BY created_at DESC
RECURSIVE order_by_created_at_desc(_)
order_by_created_at_desc(rows) ==
    IF rows = <<>> THEN <<>>
    ELSE LET i == CHOOSE i \in 1..Len(rows) :
                     \A j \in 1..Len(rows) :
                        \/ rows[j].created_at < rows[i].created_at
                        \/ rows[j].created_at = rows[i].created_at /\ j >= i
         IN <<rows[i]>> \o order_by_created_at_desc(Remove(rows, i))

\* TaskRepository.get_all_tasks of task_planner.py: a copy of the list
get_all_tasks(ts) == ts

\* TaskRepository.get_all_tasks of todo_app.py
todo_get_all_tasks(rows) == order_by_created_at_desc(rows)

\* TaskRepository.search_tasks of todo_app.py
todo_search_tasks(filters) ==
    /\ app = "sql" /\ pc = "ready"
    /\ LET where(r) == todo_where(r, filters)
       IN results' = order_by_created_at_desc(SelectSeq(dbRows, where))
    /\ last' = [op |-> "search_tasks", arg |-> None, data |-> filters,
                res |-> "ok", save |-> "none"]
    /\ conns' = get_connection(conns)
    /\ UNCHANGED <<backups, app, pc, clock, nextId, faults, ops, tasks, csvFile, csvTmp,
                   dbRows, contacts, jsonFile>>

\* a repository holding some records, all of them persisted
InitSearch ==
    /\ app \in {"csv", "sql"}
    /\ \E rs \in SearchLists :
          /\ tasks = IF app = "csv" THEN rs ELSE <<>>
          /\ csvFile = IF app = "csv" THEN [exists |-> TRUE, lines |-> csv_lines(rs)]
                       ELSE Absent
          /\ dbRows = IF app = "sql" THEN rs ELSE <<>>
          /\ clock = Len(rs)
          /\ nextId = Len(rs) + 1
    /\ pc = "ready"
    /\ faults = 0
    /\ ops = 0
    /\ csvTmp = Absent
    /\ contacts = <<>>
    /\ jsonFile = EmptyFile
    /\ last = NoCall
    /\ results = <<>>
    /\ backups = NoBackups
    /\ conns = {}

NextSearch ==
    \/ \E kwargs \in SearchFilters : search_tasks(kwargs)
    \/ \E filters \in SearchFilters : todo_search_tasks(filters)

SpecSearch == InitSearch /\ [][NextSearch]_vars


\* ------------------------------------------------------------------ backups
\* calls made on the repository in one run that takes backups
MaxBackupCalls == 7

MAX_BACKUP_FILES == 5
MAX_BACKUPS == 5

\* readings of datetime.now() in one second
TicksPerSecond == 1000000

\* datetime.now().strftime("%Y%m%d_%H%M%S"): the reading cut to its second
strftime(t) == t \div TicksPerSecond

\* time that passes before a backup call reads the clock: the least the clock
\* resolves, or a second
Delays == {1, TicksPerSecond}

Min(a, b) == IF a < b THEN a ELSE b

FileNames(dir) == {b.name : b \in dir}

\* open(backup_file, "w") / sqlite3.connect(backup_file) and the write: the
\* file of that name, new or not, now holds body
write_backup(dir, name, body) ==
    {b \in dir : b.name # name} \cup {[name |-> name, body |-> body]}

\* files.sort(reverse=True) / sorted(..., reverse=True) on the backup names,
\* whose fixed-width timestamps sort as the times they encode
RECURSIVE sort_reverse(_)
sort_reverse(names) ==
    IF names = {} THEN <<>>
    ELSE LET top == CHOOSE n \in names : \A m \in names : m <= n
         IN <<top>> \o sort_reverse(names \ {top})

\* A pruning that sorts the names in ascending order and so keeps the oldest.
cleanup_keeps_oldest(dir, stuck) ==
    LET files == sort_reverse(FileNames(dir))
        keep == {files[i] : i \in (Len(files) - MAX_BACKUP_FILES + 1)..Len(files)}
                   \cap FileNames(dir)
        removed == IF Len(files) > MAX_BACKUP_FILES THEN FileNames(dir) \ keep ELSE {}
    IN [dir |-> {b \in dir : b.name \notin removed}, removed |-> removed,
        failed |-> {}, raised |-> FALSE]

\* A pruning that lets the exception of a failed os.remove leave the call.
cleanup_raising(dir, stuck) ==
    LET files == sort_reverse(FileNames(dir))
        old == IF Len(files) > MAX_BACKUP_FILES
               THEN SubSeq(files, MAX_BACKUP_FILES + 1, Len(files)) ELSE <<>>
        removed == {old[i] : i \in {k \in 1..Len(old) : \A j \in 1..k : old[j] \notin stuck}}
        failed == {old[i] : i \in {k \in 1..Len(old) :
                                      old[k] \in stuck /\ \A j \in 1..(k - 1) : old[j] \notin stuck}}
    IN [dir |-> {b \in dir : b.name \notin removed}, removed |-> removed,
        failed |-> failed, raised |-> failed # {}]

\* CSVTaskStorage._cleanup_old_backups, os.remove failing on the files in
\* stuck: the loop over files[MAX_BACKUP_FILES:] ends at the first failure,
\* which the enclosing try turns into a warning
cleanup_old_backups(dir, stuck) ==
    LET files == sort_reverse(FileNames(dir))
        old == IF Len(files) > MAX_BACKUP_FILES
               THEN SubSeq(files, MAX_BACKUP_FILES + 1, Len(files)) ELSE <<>>
        removed == {old[i] : i \in {k \in 1..Len(old) : \A j \in 1..k : old[j] \notin stuck}}
        failed == {old[i] : i \in {k \in 1..Len(old) :
                                      old[k] \in stuck /\ \A j \in 1..(k - 1) : old[j] \notin stuck}}
    IN [dir |-> {b \in dir : b.name \notin removed}, removed |-> removed,
        failed |-> failed, raised |-> FALSE]

\* DatabaseManager._cleanup_old_backups: each os.remove has its own try, a
\* failure is a warning and the loop goes on
todo_cleanup_old_backups(dir, stuck) ==
    LET backups_ == sort_reverse(FileNames(dir))
        old == IF Len(backups_) > MAX_BACKUPS
               THEN SubSeq(backups_, MAX_BACKUPS + 1, Len(backups_)) ELSE <<>>
        removed == {old[i] : i \in {k \in 1..Len(old) : old[k] \notin stuck}}
        failed == {old[i] : i \in {k \in 1..Len(old) : old[k] \in stuck}}
    IN [dir |-> {b \in dir : b.name \notin removed}, removed |-> removed,
        failed |-> failed, raised |-> FALSE]

\* the files os.remove can fail on during one pruning: none, or, while a
\* fault is left to inject, one of the backups present
Stuck == {{}} \cup (IF faults < MaxFaults THEN {{n} : n \in FileNames(backups.dir)} ELSE {})

\* whether the interpreter finalizes an unreferenced connection at once
\* (reference counting) or leaves it open until some later collection: either
\* can be the case, and one run has one interpreter
Finalizes == IF backups.made = 0 THEN BOOLEAN ELSE {conns = {}}

\* a caller makes one more call in a run that takes backups
BackupCalled == pc = "ready" /\ ops < MaxBackupCalls /\ ops' = ops + 1

\* TaskRepository.backup -> CSVTaskStorage.backup_tasks(self.tasks)
backup(dt, opened, stuck) ==
    /\ app = "csv" /\ BackupCalled
    /\ clock' = clock + dt
    /\ LET timestamp == strftime(clock')
           call == [op |-> "backup", arg |-> timestamp, data |-> {}, res |-> "ok",
                    save |-> "none", removed |-> {}]
       IN IF ~opened
          THEN /\ faults < MaxFaults
               /\ stuck = {}
               /\ faults' = faults + 1
               /\ backups' = backups
               /\ last' = [call EXCEPT !.res = "TaskPlannerError"]
          ELSE LET c == cleanup_old_backups(
                            write_backup(backups.dir, timestamp, csv_lines(tasks)), stuck)
               IN /\ faults' = IF c.failed = {} THEN faults ELSE faults + 1
                  /\ backups' = [dir |-> c.dir,
                                 made |-> IF c.raised THEN backups.made
                                          ELSE backups.made + 1]
                  /\ last' = [call EXCEPT !.data = c.failed, !.removed = c.removed,
                                          !.res = IF c.raised THEN "TaskPlannerError"
                                                  ELSE "ok"]
    /\ UNCHANGED <<conns, results, app, pc, nextId, tasks, csvFile, csvTmp, dbRows, contacts,
                   jsonFile>>

\* DatabaseManager.backup_database.  `with sqlite3.connect(backup_file) as
\* dest_conn` commits on exit and does not close: dest_conn is closed only
\* when the interpreter finalizes the unreferenced object, at once
\* (collected) or at no time the code controls.
backup_database(dt, opened, stuck, collected) ==
    /\ app = "sql" /\ BackupCalled
    /\ clock' = clock + dt
    /\ LET timestamp == strftime(clock')
           call == [op |-> "backup", arg |-> timestamp, data |-> {}, res |-> "ok",
                    save |-> "none", removed |-> {}]
       IN IF ~opened
          THEN /\ faults < MaxFaults
               /\ stuck = {}
               /\ faults' = faults + 1
               /\ backups' = backups
               /\ last' = [call EXCEPT !.res = "DatabaseError"]
          ELSE LET c == todo_cleanup_old_backups(
                            write_backup(backups.dir, timestamp, dbRows), stuck)
               IN /\ faults' = IF c.failed = {} THEN faults ELSE faults + 1
                  /\ backups' = [dir |-> c.dir, made |-> backups.made + 1]
                  /\ last' = [call EXCEPT !.data = c.failed, !.removed = c.removed]
    /\ conns' = IF opened /\ ~collected
                THEN get_connection(connect(conns, BackupConn(strftime(clock'))))
                ELSE get_connection(conns)
    /\ UNCHANGED <<results, app, pc, nextId, tasks, csvFile, csvTmp, dbRows, contacts,
                   jsonFile>>

InitBackup ==
    /\ app \in {"csv", "sql"}
    /\ pc = "ready"
    /\ clock = 0
    /\ nextId = 1
    /\ faults = 0
    /\ ops = 0
    /\ tasks = <<>>
    /\ csvFile = Absent
    /\ csvTmp = Absent
    /\ dbRows = <<>>
    /\ contacts = <<>>
    /\ jsonFile = EmptyFile
    /\ last = NoCall
    /\ results = <<>>
    /\ backups = NoBackups
    /\ conns = {}

NextBackup ==
    \/ \E d \in TaskDatas : \E o \in SaveOutcomes(Len(tasks) + 1) : create_task(d, o)
    \/ \E d \in TodoDatas : todo_create_task(d)
    \/ \E dt \in Delays : \E opened \in BOOLEAN : \E stuck \in Stuck :
          backup(dt, opened, stuck)
    \/ \E dt \in Delays : \E opened \in BOOLEAN : \E stuck \in Stuck :
          \E collected \in Finalizes : backup_database(dt, opened, stuck, collected)

SpecBackup == InitBackup /\ [][NextBackup]_vars


\* ------------------------------------------------------------ construction
\* In this part the canonical file is whatever an earlier run, an editor or
\* a crash left, and the program is started, ended and started again.
\* data lines of a canonical file found at start
MaxRows == 2

GoodRow1 == <<"1", "a", "", "medium", "", "", "1", "1", "pending">>
GoodRow2 == <<"2", "b", "", "high", "", "", "2", "2", "completed">>
\* a line with fewer cells than the header
ShortRow == <<"3", "c">>
BlankRow == <<>>

\* a header written before the status column existed
OldHeader == SubSeq(fieldnames, 1, Len(fieldnames) - 1)

LoadCsvFiles ==
    {Absent, [exists |-> TRUE, lines |-> <<>>], [exists |-> TRUE, lines |-> <<BadBytes>>]}
    \cup {[exists |-> TRUE, lines |-> <<h>> \o rows] :
            h \in {fieldnames, OldHeader},
            rows \in UNION {[1..n -> {GoodRow1, GoodRow2, ShortRow, BlankRow}] :
                               n \in 0..MaxRows}}

\* a JSON object that has no phone and no email member
NameOnly == <<<<"name", "Al">>>>

LoadJsonFiles ==
    {MissingFile, EmptyFile, PartialFile, [kind |-> "notlist", doc |-> <<>>]}
    \cup {[kind |-> "doc", doc |-> d] :
            d \in UNION {[1..n -> {dump_obj(Contact("Al", Phone1)),
                                   dump_obj(Contact("Bo", Phone2)), NameOnly}] :
                            n \in 0..MaxRows}}

\* the process ends: the menu's exit choice, sys.exit in handle_signal, or
\* main returning after a failed load
exit ==
    /\ pc \in {"ready", "failed"}
    /\ pc' = "dead"
    /\ last' = [NoCall EXCEPT !.op = "exit"]
    /\ UNCHANGED <<conns, results, backups, app, clock, nextId, faults, ops, tasks, csvFile, csvTmp,
                   dbRows, contacts, jsonFile>>

InitLoad ==
    /\ app \in {"csv", "json"}
    /\ pc = "dead"
    /\ clock = 0
    /\ nextId = 1
    /\ faults = 0
    /\ ops = 0
    /\ tasks = <<>>
    /\ csvFile \in (IF app = "csv" THEN LoadCsvFiles ELSE {Absent})
    /\ csvTmp = Absent
    /\ dbRows = <<>>
    /\ contacts = <<>>
    /\ jsonFile \in (IF app = "json" THEN LoadJsonFiles ELSE {EmptyFile})
    /\ last = NoCall
    /\ results = <<>>
    /\ backups = NoBackups
    /\ conns = {}

NextLoad == csv_start \/ json_start \/ exit

SpecLoad == InitLoad /\ [][NextLoad]_vars

\* ----------------------------------------------------------------- properties
\* what a fresh load of the canonical resource returns, against the cache
CsvPersisted == load_tasks(csvFile)
JsonPersisted == load_contacts(jsonFile)

\* C1: when the process is ended inside CSVTaskStorage.save_tasks (while the
\* temporary file is written, before the replace, or right after it), a later
\* load_tasks returns the list that was persisted before the save or the
\* complete new list, never a partial or mixed one.
C1_CsvSaveCrashAtomic ==
    [][(app = "csv" /\ pc = "ready" /\ pc' = "dead")
          => load_tasks(csvFile') \in {load_tasks(csvFile), tasks'}]_vars

\* the process was ended after the header and one of two rows reached the
\* temporary file, with an older canonical file in place
C1_Witness ==
    /\ app = "csv" /\ pc = "dead" /\ last.save = "killed"
    /\ csvFile.exists /\ csvTmp.exists
    /\ Len(tasks) = 2 /\ Len(csvTmp.lines) = 2
    /\ load_tasks(csvFile) # tasks

\* C2: an interruption at any point of ContactManager._save_contacts leaves
\* the canonical JSON file holding the complete old or the complete new
\* contact list, never a truncated or half-written document.
C2_JsonSaveCrashAtomic ==
    [][(app = "json" /\ ops' = ops + 1 /\ last'.save \in {"failed", "killed"})
          => (jsonFile' = jsonFile \/ jsonFile' = Doc(contacts'))]_vars

MutatingOps == {"create_task", "update_task", "delete_task", "add_contact",
                "update_contact", "delete_contact", "import_contacts"}

\* C3: whenever a mutating call of a flat-file repository returns success,
\* a fresh load of the canonical file returns the in-memory record set,
\* whatever calls came before, calls that raised included.
C3_SuccessMeansPersisted ==
    (app \in {"csv", "json"} /\ pc = "ready" /\ last.op \in MutatingOps /\ last.res = "ok")
        => IF app = "csv"
           THEN CsvPersisted = tasks
           ELSE JsonPersisted.res = "ok" /\ JsonPersisted.list = contacts

\* C4: if the store's save raises during a mutating call, the call reports an
\* error and the in-memory record set after the call equals the one before it.
C4_SaveFailureRollsBack ==
    [][(ops' = ops + 1 /\ last'.save = "failed")
          => /\ last'.res \in {"TaskPlannerError", "DatabaseError"}
             /\ tasks' = tasks
             /\ contacts' = contacts]_vars

\* C5: when add_contact, update_contact or import_contacts raises
\* ValidationError or ContactExistsError, no field of any in-memory contact
\* has changed (so nothing the rejected call supplied can be written later).
C5_RejectedNeverApplied ==
    [][(app = "json" /\ ops' = ops + 1
        /\ last'.res \in {"ValidationError", "ContactExistsError"})
          => contacts' = contacts]_vars

\* C6: round trip: after a save that succeeded, load returns the saved record
\* list: load_tasks after save_tasks, _load_contacts after _save_contacts
\* (equal as lists, hence as sets of records, field by field).
C6_RoundTrip ==
    last.save = "ok"
        => /\ app = "csv" => (CsvPersisted = tasks /\ Range(CsvPersisted) = Range(tasks))
           /\ app = "json" => (JsonPersisted.res = "ok" /\ JsonPersisted.list = contacts)

\* a successful save of two different tasks
C6_Witness ==
    /\ app = "csv" /\ last.save = "ok"
    /\ Len(tasks) = 2 /\ Len(csvFile.lines) = 3
    /\ tasks[1].title # tasks[2].title

Ids(rs) == [i \in 1..Len(rs) |-> rs[i].id]

\* C7: at every moment no two records held by a repository share an id
\* (the ids create_task returns are drawn fresh).
C7_IdsUnique ==
    /\ \A i, j \in 1..Len(tasks) : i # j => tasks[i].id # tasks[j].id
    /\ \A i, j \in 1..Len(dbRows) : i # j => dbRows[i].id # dbRows[j].id

\* C8: no update_task call, whatever its update_data, changes the id of any
\* record.
C8_IdImmutable ==
    [][(last'.op = "update_task" /\ ops' = ops + 1)
          => (Ids(tasks') = Ids(tasks) /\ Ids(dbRows') = Ids(dbRows))]_vars

\* C9: every record has updated_at >= created_at, and a successful
\* update_task leaves a record stamped with the clock value of the call.
C9_Timestamps ==
    /\ \A t \in Range(tasks) \cup Range(dbRows) : t.updated_at >= t.created_at
    /\ (last.op = "update_task" /\ last.res = "ok")
          => \E t \in Range(tasks) \cup Range(dbRows) : t.updated_at = clock

\* the frame of update_task(id, {f: v}) on a record list: the record at the
\* first index holding id keeps every field but f and updated_at, every other
\* record is as before
FrameHolds(before, after, id, f) ==
    /\ Len(after) = Len(before)
    /\ \A j \in 1..Len(before) :
          IF j = FirstIndex(before, id)
          THEN \A g \in FieldSet \ {f, "updated_at"} : after[j][g] = before[j][g]
          ELSE after[j] = before[j]

\* C10: a successful update_task(id, {field: v}) changes only that field and
\* updated_at of the record with that id; every other record is unchanged, in
\* memory and as persisted.
C10_UpdatePartiality ==
    [][(last'.op = "update_task" /\ last'.res = "ok" /\ ops' = ops + 1
        /\ Cardinality(DOMAIN last'.data) = 1)
          => LET f == CHOOSE g \in DOMAIN last'.data : TRUE
                 id == last'.arg
                 before == load_tasks(csvFile)
                 after == load_tasks(csvFile')
             IN /\ FrameHolds(tasks, tasks', id, f)
                /\ FrameHolds(dbRows, dbRows', id, f)
                /\ app = "csv" =>
                      {after[j] : j \in (1..Len(after)) \ {FirstIndex(tasks, id)}}
                         = {r \in Range(before) : r.id # id}]_vars

\* the records of the repository the run follows
Records == IF app = "csv" THEN tasks ELSE dbRows

Holds(rs, id) == \E r \in Range(rs) : r.id = id

\* the records whose id differs from id, in order
Others(rs, id) == LET other(r) == r.id # id IN SelectSeq(rs, other)

\* C11: update_task returns None, without raising, exactly when no record
\* has the given id; for an id that is present it returns the updated record,
\* whatever update_data is (an empty mapping, a mapping naming no updatable
\* field).
C11_UpdateNoneIffAbsent ==
    [][(last'.op = "update_task" /\ ops' = ops + 1 /\ last'.save \in {"none", "ok"})
          => ((last'.res = "None") <=> ~Holds(Records, last'.arg))]_vars

\* C12: delete_task(id) for an id no record holds returns False, leaves the
\* record set as it was and writes nothing: no save_tasks call and no change
\* of the canonical or temporary CSV file, no change of a row of the database.
C12_DeleteAbsentNoWrite ==
    [][(last'.op = "delete_task" /\ ops' = ops + 1 /\ ~Holds(Records, last'.arg))
          => /\ last'.res = "False"
             /\ last'.save = "none"
             /\ tasks' = tasks /\ csvFile' = csvFile /\ csvTmp' = csvTmp
             /\ dbRows' = dbRows]_vars

\* delete_task of an absent id returned False while the cache holds a task
\* that the canonical file does not
C12_Witness ==
    /\ app = "csv" /\ last.op = "delete_task" /\ last.res = "False"
    /\ Len(tasks) = 1 /\ CsvPersisted # tasks

\* C13: delete_task(id) for an id a record holds returns True (when its save
\* does not fail); once it has returned True, get_task(id) returns None from
\* the live repository and from one freshly loaded from the persisted state,
\* and every record with another id is as before.
C13_DeletePresent ==
    [][(last'.op = "delete_task" /\ ops' = ops + 1)
          => LET id == last'.arg
             IN /\ (Holds(Records, id) /\ last'.save \in {"none", "ok"}) => last'.res = "ok"
                /\ last'.res = "ok" =>
                      /\ Holds(Records, id)
                      /\ get_task(tasks', id) = NoTask
                      /\ get_task(load_tasks(csvFile'), id) = NoTask
                      /\ todo_get_task(dbRows', id) = NoTask
                      /\ Others(tasks', id) = Others(tasks, id)
                      /\ Others(dbRows', id) = Others(dbRows, id)]_vars

\* delete_task removed one of two tasks and returned True
C13_Witness ==
    /\ app = "csv" /\ last.op = "delete_task" /\ last.res = "ok"
    /\ Len(tasks) = 1 /\ ~Holds(tasks, last.arg) /\ CsvPersisted = tasks

CallerFields == {"title", "description", "priority", "due_date", "category", "status"}

\* C14: the record create_task returns, which get_task(id) returns right
\* after it, has created_at = updated_at, every field the caller supplied
\* equal to the supplied value, priority 'medium' when omitted and status
\* 'pending' when omitted.
C14_CreateKeepsSupplied ==
    (last.op = "create_task" /\ last.res = "ok")
        => LET r == IF app = "csv" THEN get_task(tasks, last.arg)
                    ELSE todo_get_task(dbRows, last.arg)
           IN /\ r # NoTask
              /\ r.id = last.arg
              /\ r.created_at = r.updated_at
              /\ \A f \in DOMAIN last.data \cap CallerFields : r[f] = last.data[f]
              /\ "priority" \notin DOMAIN last.data => r.priority = "medium"
              /\ "status" \notin DOMAIN last.data => r.status = "pending"

\* text s occurs in text t
Contains(t, s) == \E i \in 1..(Len(t) - Len(s) + 1) : SubSeq(t, i, i + Len(s) - 1) = s

\* C15: for a filter that supplies a non-empty priority and/or status and
\* nothing else, search_tasks returns exactly the stored records whose
\* priority and status equal every supplied value, each of them once.
C15_EnumSearchExact ==
    (/\ last.op = "search_tasks"
     /\ DOMAIN last.data # {} /\ DOMAIN last.data \subseteq {"priority", "status"}
     /\ \A f \in DOMAIN last.data : last.data[f] # "")
        => /\ Range(results)
                = {r \in Range(Records) : \A f \in DOMAIN last.data : r[f] = last.data[f]}
           /\ Len(results) = Cardinality(Range(results))

\* search_tasks(priority='high') over two high-priority records and three
\* others returned two records
C15_Witness ==
    /\ last.op = "search_tasks" /\ last.data = [priority |-> "high"]
    /\ Len(Records) = 5 /\ Len(results) = 2
    /\ \A r \in Range(results) : r.priority = "high"

\* C16: for a filter that supplies one non-empty title, description or
\* category value s, search_tasks returns exactly the records whose field
\* contains s as a substring, letter case ignored.
C16_TextSearchContains ==
    (/\ last.op = "search_tasks"
     /\ Cardinality(DOMAIN last.data) = 1
     /\ DOMAIN last.data \subseteq {"title", "description", "category"}
     /\ \A f \in DOMAIN last.data : last.data[f] # <<>>)
        => LET f == CHOOSE g \in DOMAIN last.data : TRUE
           IN Range(results)
                = {r \in Range(Records) :
                      Contains(lower_text(r[f]), lower_text(last.data[f]))}

\* C17: after k backup calls have returned, made at any times (several in
\* one clock second included), the canonical path has exactly min(k, 5)
\* backup files.
C17_RetentionBound ==
    Cardinality(backups.dir) = Min(backups.made, MAX_BACKUP_FILES)

\* the backup names present when the pruning of the call just made ran
AtPruning == FileNames(backups.dir) \cup {last'.arg}

\* C18: after a backup call whose deletions all succeeded, the backups kept
\* are the 5 latest (all, when there are no more than 5) of those present
\* when pruning ran: every deleted one is older than every kept one, and the
\* backup just written is kept.
C18_PruneOldestOnly ==
    [][(last'.op = "backup" /\ ops' = ops + 1 /\ last'.res = "ok" /\ last'.data = {})
          => LET kept == FileNames(backups'.dir)
             IN /\ kept \subseteq AtPruning
                /\ Cardinality(kept) = Min(Cardinality(AtPruning), MAX_BACKUP_FILES)
                /\ \A k \in kept : \A d \in AtPruning \ kept : d < k
                /\ AtPruning \ kept = last'.removed
                /\ last'.arg \in kept]_vars

\* a backup call pruned two files at once: the one an earlier pruning could
\* not delete and the next oldest
C18_Witness ==
    /\ last.op = "backup" /\ last.res = "ok" /\ last.data = {}
    /\ Cardinality(last.removed) = 2
    /\ Cardinality(backups.dir) = MAX_BACKUP_FILES

\* C19: when an os.remove of the pruning triggered by a backup call fails,
\* the call still returns without raising, the backup it wrote exists, and
\* the file that could not be deleted is still there.
C19_PruneFailureNonFatal ==
    [][(last'.op = "backup" /\ ops' = ops + 1 /\ last'.data # {})
          => /\ last'.res = "ok"
             /\ backups'.made = backups.made + 1
             /\ last'.arg \in FileNames(backups'.dir)
             /\ last'.data \subseteq FileNames(backups'.dir)]_vars

\* a backup call returned although its pruning could not delete a file; the
\* sixth file is left in place
C19_Witness ==
    /\ last.op = "backup" /\ last.res = "ok" /\ last.data # {}
    /\ Cardinality(backups.dir) = MAX_BACKUP_FILES + 1
    /\ last.data \subseteq FileNames(backups.dir)

\* C20: every backup written holds exactly the records of the canonical
\* persisted resource at the moment the backup is made, also after a mutating
\* call whose save failed.
C20_BackupCopiesPersisted ==
    [][(last'.op = "backup" /\ ops' = ops + 1 /\ last'.res = "ok")
          => \E b \in backups'.dir :
                /\ b.name = last'.arg
                /\ IF app = "csv"
                   THEN load_tasks([exists |-> TRUE, lines |-> b.body]) = load_tasks(csvFile)
                   ELSE b.body = dbRows]_vars

\* the canonical file of the program the run follows does not exist
FileMissing == IF app = "csv" THEN ~csvFile.exists ELSE jsonFile.kind = "missing"

\* C21: constructing a TaskRepository over CSVTaskStorage, or a
\* ContactManager, when the canonical file does not exist succeeds and yields
\* an empty record set.
C21_MissingIsEmpty ==
    [][(pc = "dead" /\ last'.op = "init" /\ FileMissing)
          => /\ pc' = "ready" /\ last'.res = "ok"
             /\ tasks' = <<>> /\ contacts' = <<>>]_vars

\* a ContactManager was constructed on a missing contacts.json, which the
\* load has created
C21_Witness ==
    /\ app = "json" /\ pc = "ready" /\ last.op = "init"
    /\ jsonFile = EmptyFile /\ contacts = <<>>

\* C22: a load of a parsable container skips exactly the malformed rows and
\* does not fail, so that every record held after a successful load has all
\* required keys (name, phone and email of a contact; every field of a task).
C22_LoadedRecordsComplete ==
    (pc = "ready" /\ last.op = "init" /\ last.res = "ok")
        => /\ \A i \in 1..Len(contacts) : HasKeys(contacts[i])
           /\ \A i \in 1..Len(tasks) : \A f \in FieldSet : tasks[i][f] # None

\* update_data or task_data gives status or priority a value outside the
\* sets the schema allows
OutsideEnums(d) ==
    \/ "status" \in DOMAIN d /\ d.status \notin {"pending", "completed"}
    \/ "priority" \in DOMAIN d /\ d.priority \notin {"low", "medium", "high"}

\* C23: in the SQLite repository every row has status in {pending,
\* completed} and priority in {low, medium, high} after every call, and a
\* create_task, or an update_task of a present id, that supplies a value
\* outside these sets fails with DatabaseError and leaves the table unchanged.
C23_EnumeratedValues ==
    [][(app = "sql" /\ ops' = ops + 1 /\ last'.op \in {"create_task", "update_task"})
          => /\ \A r \in Range(dbRows') :
                   /\ r.status \in {"pending", "completed"}
                   /\ r.priority \in {"low", "medium", "high"}
             /\ (/\ OutsideEnums(last'.data)
                 /\ last'.op = "update_task" => Holds(dbRows, last'.arg))
                   => (last'.res = "DatabaseError" /\ dbRows' = dbRows)]_vars

\* C24: when an operation of the SQLite backend has returned or raised,
\* every connection it opened is closed, the destination connection of
\* backup_database included: no connection is open between operations.
C24_ConnectionsClosed == conns = {}

\* the import file of the call just made is readable JSON whose data is
\* invalid: not a list, or a list with an entry that lacks a key or fails
\* validation
InvalidImport ==
    /\ last'.op = "import_contacts"
    /\ \/ last'.arg = "notlist"
       \/ /\ last'.arg = "list"
          /\ \E i \in 1..Len(last'.data) :
                \/ ~HasKeys(last'.data[i])
                \/ validate_fails(last'.data[i].name, last'.data[i].phone,
                                  last'.data[i].email)

\* C25: import_contacts on readable JSON with invalid data raises
\* ValidationError, and the in-memory contacts and the canonical file are
\* unchanged.
C25_ImportInvalidIsValidationError ==
    [][(ops' = ops + 1 /\ InvalidImport)
          => /\ last'.res = "ValidationError"
             /\ contacts' = contacts
             /\ jsonFile' = jsonFile]_vars

\* C26: add_contact with valid arguments raises ContactExistsError and
\* changes neither the contact list nor the canonical file when a held
\* contact has that name, letter case ignored; otherwise it appends exactly
\* one contact with the given name, phone and email.
C26_AddRejectsDuplicates ==
    [][(last'.op = "add_contact" /\ ops' = ops + 1
        /\ ~validate_fails(last'.data[1], last'.data[2], last'.data[3]))
          => IF \E c \in Range(contacts) : lower(c.name) = lower(last'.data[1])
             THEN /\ last'.res = "ContactExistsError"
                  /\ contacts' = contacts
                  /\ jsonFile' = jsonFile
             ELSE contacts' = Append(contacts, [name |-> last'.data[1],
                                                phone |-> last'.data[2],
                                                email |-> last'.data[3]])]_vars

\* add_contact("al", ...) was rejected while "Al" is held
C26_Witness ==
    /\ last.op = "add_contact" /\ last.res = "ContactExistsError" /\ last.arg = "al"
    /\ \E c \in Range(contacts) : c.name = "Al"
    /\ \A c \in Range(contacts) : c.name # "al"

\* C27: no two contacts held have names that are equal, letter case
\* ignored.
C27_NamesUnique ==
    \A i, j \in 1..Len(contacts) :
        i # j => lower(contacts[i].name) # lower(contacts[j].name)

\* C29: update_contact raises ContactExistsError for new_name only when a
\* contact other than the one being updated holds that name, letter case
\* ignored.
C29_RenameExistsOnlyForOther ==
    [][(last'.op = "update_contact" /\ ops' = ops + 1 /\ last'.res = "ContactExistsError")
          => \E j \in 1..Len(contacts) :
                /\ j # find_contact_index(contacts, last'.arg)
                /\ lower(contacts[j].name) = lower(last'.data[1])]_vars

\* C28: a construction of ContactManager that succeeds leaves the file such
\* that the next construction on the same db_path succeeds too and yields
\* the same contact list; on a missing db_path both yield the empty list.
C28_LoadRepeatable ==
    [][(app = "json" /\ last'.op = "init" /\ last'.res = "ok")
          => /\ load_contacts(jsonFile').res = "ok"
             /\ load_contacts(jsonFile').list = contacts']_vars

\* neighbours of a listing are in non-increasing created_at order
NewestFirst(rs) ==
    \A i \in 1..(Len(rs) - 1) : rs[i].created_at >= rs[i + 1].created_at

\* filters on the enumerated columns a caller passes to search_tasks
EnumFilters == {<<>>, [priority |-> "high"], [status |-> "pending"],
                [priority |-> "medium", status |-> "completed"]}

\* C30: the CSV repository's get_all_tasks lists the surviving records in the
\* order they were created: create_task appends at the end, update_task
\* leaves every record at its position, delete_task takes records out without
\* moving the others, and a list that was saved is loaded back in the same
\* order. The SQLite repository's get_all_tasks and search_tasks list records
\* in non-increasing created_at order.
C30_ListingOrder ==
    [][(ops' = ops + 1 /\ last'.op \in {"create_task", "update_task", "delete_task"})
          => /\ app = "csv" =>
                  LET before == get_all_tasks(tasks)
                      after == get_all_tasks(tasks')
                      i == FirstIndex(tasks, last'.arg)
                  IN /\ last'.op = "create_task" =>
                          /\ Len(after) = Len(before) + 1
                          /\ SubSeq(after, 1, Len(before)) = before
                     /\ last'.op = "update_task" =>
                          /\ Len(after) = Len(before)
                          /\ \A j \in 1..Len(before) : j # i => after[j] = before[j]
                          /\ i # 0 => after[i] = apply_update(before[i], last'.data, clock')
                     /\ last'.op = "delete_task" => after = Others(before, last'.arg)
                     /\ last'.save = "ok" => get_all_tasks(load_tasks(csvFile')) = after
             /\ app = "sql" =>
                  /\ NewestFirst(todo_get_all_tasks(dbRows'))
                  /\ \A filters \in EnumFilters :
                        LET where(r) == todo_where(r, filters)
                        IN NewestFirst(order_by_created_at_desc(SelectSeq(dbRows', where)))]_vars

\* two rows are held after an update_task and the listing shows the younger
\* one first, which is not the order of insertion
C30_Witness ==
    /\ app = "sql" /\ last.op = "update_task" /\ last.res = "ok"
    /\ Len(dbRows) = 2
    /\ todo_get_all_tasks(dbRows)[1].created_at > todo_get_all_tasks(dbRows)[2].created_at
    /\ todo_get_all_tasks(dbRows) # dbRows
====
